---- MODULE Spec2Model ----
(***************************************************************************)
(* The C-ABI gateway of src/interop/src/lib.rs: dns_resolve,               *)
(* dns_resolve_simple, http_request_execute and their free functions,      *)
(* called by foreign threads.  Byte strings are sequences of byte values;  *)
(* the heap is the set of allocations handed across the boundary.          *)
(***************************************************************************)
EXTENDS Integers, Sequences, FiniteSets, TLC

\* ---------------------------------------------------------------- bounds
NumThreads == 2
MaxServers == 2
MaxRecords == 2
MaxHeaders == 2

Threads == 1..NumThreads

\* ----------------------------------------------------------- byte strings
NUL == 0
COLON == 58
\* 0xFF: a byte that occurs in no UTF-8 sequence.
BadBytes == <<255>>
\* char::is_whitespace on ASCII: tab, LF, VT, FF, CR, space.
WhiteSpace == (9..13) \cup {32}

\* A caller's char pointer: null, or the bytes before the terminator.
NullStr == [null |-> TRUE, bytes |-> <<>>]
Str(b) == [null |-> FALSE, bytes |-> b]

\* CStr::from_ptr: a null pointer is dereferenced (undefined behaviour): the
\* read faults, or yields whatever bytes lie there.
CStrFromPtr(p) ==
  IF p.null
    THEN {[segv |-> TRUE, bytes |-> <<>>],
          [segv |-> FALSE, bytes |-> <<>>],
          [segv |-> FALSE, bytes |-> BadBytes]}
    ELSE {[segv |-> FALSE, bytes |-> p.bytes]}

\* CStr::to_str: Ok iff the bytes are UTF-8.  The byte values used here are
\* ASCII or 0xFF, and 0xFF occurs in no UTF-8 sequence.
Utf8Valid(b) == \A i \in 1..Len(b) : b[i] < 128

\* CString::new: Err iff the text holds an interior NUL.
HasNul(b) == \E i \in 1..Len(b) : b[i] = NUL

\* ------------------------------------------------------------ IP literals
IsDigit(c) == c \in 48..57

RECURSIVE SplitOn(_, _)
SplitOn(b, sep) ==
  IF \A i \in 1..Len(b) : b[i] # sep
    THEN <<b>>
    ELSE LET i == CHOOSE k \in 1..Len(b) :
                    b[k] = sep /\ \A j \in 1..(k - 1) : b[j] # sep
         IN <<SubSeq(b, 1, i - 1)>> \o SplitOn(SubSeq(b, i + 1, Len(b)), sep)

RECURSIVE DecValue(_)
DecValue(ds) ==
  IF ds = <<>> THEN 0
  ELSE 10 * DecValue(SubSeq(ds, 1, Len(ds) - 1)) + (ds[Len(ds)] - 48)

OctetOk(ds) ==
  /\ Len(ds) \in 1..3
  /\ \A i \in 1..Len(ds) : IsDigit(ds[i])
  /\ (Len(ds) > 1 => ds[1] # 48)
  /\ DecValue(ds) <= 255

V6Loopback == <<COLON, COLON, 49>>

\* str::parse::<IpAddr>: dotted-quad IPv4, or (of IPv6) the loopback literal.
ParseIpAddr(b) ==
  LET parts == SplitOn(b, 46) IN
  IF Len(parts) = 4 /\ \A i \in 1..4 : OctetOk(parts[i])
    THEN [ok |-> TRUE, v |-> 4, octets |-> [i \in 1..4 |-> DecValue(parts[i])]]
  ELSE IF b = V6Loopback
    THEN [ok |-> TRUE, v |-> 6, octets |-> <<>>]
    ELSE [ok |-> FALSE, v |-> 0, octets |-> <<>>]

RECURSIVE DecDigits(_)
DecDigits(n) ==
  IF n < 10 THEN <<48 + n>> ELSE DecDigits(n \div 10) \o <<48 + (n % 10)>>

\* IpAddr::to_string
IpToString(ip) ==
  IF ip.v = 4
    THEN DecDigits(ip.octets[1]) \o <<46>> \o DecDigits(ip.octets[2]) \o <<46>>
           \o DecDigits(ip.octets[3]) \o <<46>> \o DecDigits(ip.octets[4])
    ELSE V6Loopback

\* dns_resolve's nameserver loop: from_ptr, to_str().ok(), parse().ok(), kept
\* in order; a null entry is dereferenced.
RECURSIVE ServerIps(_)
ServerIps(servers) ==
  IF servers = <<>>
    THEN {[segv |-> FALSE, ips |-> <<>>]}
    ELSE UNION {
           IF r.segv
             THEN {[segv |-> TRUE, ips |-> <<>>]}
             ELSE { IF rest.segv THEN rest
                    ELSE IF Utf8Valid(r.bytes) /\ ParseIpAddr(r.bytes).ok
                      THEN [segv |-> FALSE,
                            ips |-> <<ParseIpAddr(r.bytes)>> \o rest.ips]
                      ELSE rest
                    : rest \in ServerIps(Tail(servers)) }
           : r \in CStrFromPtr(Head(servers)) }

\* ------------------------------------------------------------------- heap
NullPtr == 0
HeapSize == NumThreads * (MaxRecords + 2)
Addr == 1..HeapSize

Free == [kind |-> "Free"]
Text(fmt, arg, bytes) == [fmt |-> fmt, arg |-> arg, bytes |-> bytes]
Message(m) == Text(m, "", <<>>)

IsLive(h, a) == a \in Addr /\ h[a].kind # "Free"

\* The allocator hands out an unused address; each thread allocates from
\* an arena of its own (any unused address is a valid choice).
Arena(t) == ((t - 1) * (MaxRecords + 2) + 1)..(t * (MaxRecords + 2))
Alloc(h, t) ==
  CHOOSE a \in Arena(t) :
    h[a].kind = "Free" /\ \A b \in Arena(t) : b < a => h[b].kind # "Free"

\* CString::new(text).unwrap().into_raw()
CStringIntoRaw(h, t, text) ==
  LET a == Alloc(h, t) IN
  [mem |-> [h EXCEPT ![a] = [kind |-> "CString", by |-> t, text |-> text]],
   ptr |-> a]

\* Releasing the addresses of s in order: an address that is not live when it
\* is released is a memory error (double free, or free of a foreign pointer).
RECURSIVE ReleaseAll(_, _)
ReleaseAll(hs, s) ==
  IF s = <<>> THEN hs
  ELSE ReleaseAll([mem |-> IF IsLive(hs.mem, Head(s))
                             THEN [hs.mem EXCEPT ![Head(s)] = Free]
                             ELSE hs.mem,
                   err |-> hs.err \/ ~IsLive(hs.mem, Head(s))],
                  Tail(s))

\* create_dns_error that leaves the error slot empty.
create_dns_error_NoMessage(h, t, message) ==
  LET a == Alloc(h, t)
  IN [mem |-> [h EXCEPT ![a] = [kind |-> "DnsResult", by |-> t,
                                addresses |-> NullPtr, count |-> 0,
                                error |-> NullPtr]],
      ptr |-> a]

\* ------------------------------------------------------------ envelopes
\* create_dns_error: the message string, then the boxed DnsResult.
create_dns_error(h, t, message) ==
  LET e == CStringIntoRaw(h, t, message)
      a == Alloc(e.mem, t)
  IN [mem |-> [e.mem EXCEPT ![a] = [kind |-> "DnsResult", by |-> t,
                                    addresses |-> NullPtr, count |-> 0,
                                    error |-> e.ptr]],
      ptr |-> a]

\* addresses.into_iter().map(|addr| CString::new(addr).unwrap().into_raw())
RECURSIVE AddressesIntoRaw(_, _, _)
AddressesIntoRaw(h, t, addresses) ==
  IF addresses = <<>> THEN [mem |-> h, ptrs |-> <<>>]
  ELSE LET c == CStringIntoRaw(h, t, Text("{}", "", Head(addresses)))
           r == AddressesIntoRaw(c.mem, t, Tail(addresses))
       IN [mem |-> r.mem, ptrs |-> <<c.ptr>> \o r.ptrs]

\* The Ok arm without the is_empty check: zero records become an empty success.
DnsSuccess_NoEmptyCheck(h, t, lookupIps) ==
  LET addresses == [i \in 1..Len(lookupIps) |-> IpToString(lookupIps[i])]
      c == AddressesIntoRaw(h, t, addresses)
      arr == Alloc(c.mem, t)
      m1 == [c.mem EXCEPT ![arr] = [kind |-> "PtrArray", by |-> t, elems |-> c.ptrs]]
      a == Alloc(m1, t)
  IN [mem |-> [m1 EXCEPT ![a] = [kind |-> "DnsResult", by |-> t,
                                 addresses |-> arr, count |-> Len(c.ptrs),
                                 error |-> NullPtr]],
      ptr |-> a]

\* The Ok arm of lookup_ip: the address strings, the boxed slice of their
\* pointers, the boxed DnsResult.
DnsSuccess(h, t, lookupIps) ==
  LET addresses == [i \in 1..Len(lookupIps) |-> IpToString(lookupIps[i])] IN
  IF addresses = <<>>
    THEN create_dns_error(h, t, Message("No addresses found"))
    ELSE LET c == AddressesIntoRaw(h, t, addresses)
             arr == Alloc(c.mem, t)
             m1 == [c.mem EXCEPT ![arr] = [kind |-> "PtrArray", by |-> t,
                                           elems |-> c.ptrs]]
             a == Alloc(m1, t)
         IN [mem |-> [m1 EXCEPT ![a] = [kind |-> "DnsResult", by |-> t,
                                        addresses |-> arr,
                                        count |-> Len(c.ptrs),
                                        error |-> NullPtr]],
             ptr |-> a]

\* match resolver.lookup_ip(hostname).await
LookupEnvelope(h, t, out) ==
  IF out.ok
    THEN DnsSuccess(h, t, out.ips)
    ELSE create_dns_error(h, t, Text("DNS lookup failed: {}", out.err, <<>>))

\* create_http_error that drops the status it is given.
create_http_error_ZeroStatus(h, t, message, status) ==
  LET e == CStringIntoRaw(h, t, message)
      a == Alloc(e.mem, t)
  IN [mem |-> [e.mem EXCEPT ![a] = [kind |-> "HttpResponse", by |-> t,
                                    body |-> NullPtr, status_code |-> 0,
                                    error |-> e.ptr]],
      ptr |-> a]

\* create_http_error
create_http_error(h, t, message, status) ==
  LET e == CStringIntoRaw(h, t, message)
      a == Alloc(e.mem, t)
  IN [mem |-> [e.mem EXCEPT ![a] = [kind |-> "HttpResponse", by |-> t,
                                    body |-> NullPtr, status_code |-> status,
                                    error |-> e.ptr]],
      ptr |-> a]

RECURSIVE UpToNul(_)
UpToNul(b) ==
  IF b = <<>> \/ Head(b) = NUL THEN <<>> ELSE <<Head(b)>> \o UpToNul(Tail(b))

\* The Ok arm that copies the body as a C string: it stops at the first NUL.
HttpSuccess_Truncating(h, t, status, body) ==
  LET b == CStringIntoRaw(h, t, Text("{}", "", UpToNul(body)))
      a == Alloc(b.mem, t)
  IN [mem |-> [b.mem EXCEPT ![a] = [kind |-> "HttpResponse", by |-> t,
                                    body |-> b.ptr, status_code |-> status,
                                    error |-> NullPtr]],
      ptr |-> a]

\* The Ok arm of response.text(): CString::new(body) fails on an interior NUL.
HttpSuccess(h, t, status, body) ==
  IF HasNul(body)
    THEN create_http_error(h, t, Message("Response contains null bytes"), status)
    ELSE LET b == CStringIntoRaw(h, t, Text("{}", "", body))
             a == Alloc(b.mem, t)
         IN [mem |-> [b.mem EXCEPT ![a] = [kind |-> "HttpResponse", by |-> t,
                                           body |-> b.ptr,
                                           status_code |-> status,
                                           error |-> NullPtr]],
             ptr |-> a]

\* ---------------------------------------------------------- HTTP request
GET == <<71, 69, 84>>
POST == <<80, 79, 83, 84>>
PUT == <<80, 85, 84>>
DELETE == <<68, 69, 76, 69, 84, 69>>
PATCH == <<80, 65, 84, 67, 72>>
HEAD == <<72, 69, 65, 68>>

\* A match that also takes the lower-case "get".
SupportedMethods_IgnoreCase == {GET, POST, PUT, DELETE, PATCH, HEAD, <<103, 101, 116>>}

\* The arms of `match method` that select a request builder.
SupportedMethods == {GET, POST, PUT, DELETE, PATCH, HEAD}

RECURSIVE TrimStart(_)
TrimStart(b) ==
  IF b # <<>> /\ Head(b) \in WhiteSpace THEN TrimStart(Tail(b)) ELSE b

RECURSIVE TrimEnd(_)
TrimEnd(b) ==
  IF b # <<>> /\ b[Len(b)] \in WhiteSpace
    THEN TrimEnd(SubSeq(b, 1, Len(b) - 1)) ELSE b

\* str::trim
Trim(b) == TrimEnd(TrimStart(b))

\* rsplit_once: the split at the last colon.
SplitOnce_Last(b) ==
  IF \A i \in 1..Len(b) : b[i] # COLON
    THEN [some |-> FALSE, key |-> <<>>, value |-> <<>>]
    ELSE LET i == CHOOSE k \in 1..Len(b) :
                    b[k] = COLON /\ \A j \in (k + 1)..Len(b) : b[j] # COLON
         IN [some |-> TRUE, key |-> SubSeq(b, 1, i - 1),
             value |-> SubSeq(b, i + 1, Len(b))]

\* str::split_once(':')
SplitOnce(b) ==
  IF \A i \in 1..Len(b) : b[i] # COLON
    THEN [some |-> FALSE, key |-> <<>>, value |-> <<>>]
    ELSE LET i == CHOOSE k \in 1..Len(b) :
                    b[k] = COLON /\ \A j \in 1..(k - 1) : b[j] # COLON
         IN [some |-> TRUE, key |-> SubSeq(b, 1, i - 1),
             value |-> SubSeq(b, i + 1, Len(b))]

\* One pass of the header loop on an already read line.
AttachHeader(attached, line) ==
  IF Utf8Valid(line) /\ SplitOnce(line).some
    THEN Append(attached, <<Trim(SplitOnce(line).key), Trim(SplitOnce(line).value)>>)
    ELSE attached

\* The header loop: each pointer is read with from_ptr (a null entry is
\* dereferenced), and the lines are attached in order.
RECURSIVE HeaderLoop(_, _)
HeaderLoop(attached, headers) ==
  IF headers = <<>>
    THEN {[segv |-> FALSE, headers |-> attached]}
    ELSE UNION {
           IF r.segv
             THEN {[segv |-> TRUE, headers |-> <<>>]}
             ELSE HeaderLoop(AttachHeader(attached, r.bytes), Tail(headers))
           : r \in CStrFromPtr(Head(headers)) }

\* if !request.body.is_null() && request.body_len > 0
RequestBody(request) ==
  IF ~request.body.null /\ request.body_len > 0
    THEN [some |-> TRUE, bytes |-> SubSeq(request.body.bytes, 1, request.body_len)]
    ELSE [some |-> FALSE, bytes |-> <<>>]

\* ------------------------------------------------------------------ state
VARIABLES
  pc,        \* per thread: idle, block_on, drop_rt, returned, freed, crashed
  call,      \* per thread: the entry point called and its arguments
  frame,     \* per thread: the locals of the call in flight
  env,       \* per thread: what the call asked of its collaborators
  ret,       \* per thread: the pointer the call returned
  heap,      \* the allocations handed across the boundary
  memError,  \* an address was released that was not live
  runtimes,  \* the live tokio runtimes
  crashed    \* the process died

vars == <<pc, call, frame, env, ret, heap, memError, runtimes, crashed>>

DnsPort == 53

NoCall == [op |-> "none"]
NoFrame == [rt |-> 0]
NoResolver == [kind |-> "none", servers |-> <<>>]
NoLookup == [done |-> FALSE]
NoSent == [done |-> FALSE]
NoResponse == [received |-> FALSE]
NoEnv == [ranOn |-> 0, client |-> FALSE, resolver |-> NoResolver, lookup |-> NoLookup,
          sent |-> NoSent, response |-> NoResponse]

Init ==
  /\ pc = [t \in Threads |-> "idle"]
  /\ call = [t \in Threads |-> NoCall]
  /\ frame = [t \in Threads |-> NoFrame]
  /\ env = [t \in Threads |-> NoEnv]
  /\ ret = [t \in Threads |-> NullPtr]
  /\ heap = [a \in Addr |-> Free]
  /\ memError = FALSE
  /\ runtimes = {}
  /\ crashed = FALSE

\* A null pointer was dereferenced and the read faulted.
Segfault(t) ==
  /\ crashed' = TRUE
  /\ pc' = [pc EXCEPT ![t] = "crashed"]
  /\ UNCHANGED <<frame, env, ret, heap, memError, runtimes>>

\* A return before any runtime exists.
ReturnEarly(t, r) ==
  /\ pc' = [pc EXCEPT ![t] = "returned"]
  /\ ret' = [ret EXCEPT ![t] = r.ptr]
  /\ heap' = r.mem
  /\ UNCHANGED <<frame, env, memError, runtimes, crashed>>

\* One runtime shared by every call.
NewRuntime_Shared(t) == [id |-> 1, owner |-> 1]

\* tokio::runtime::Runtime::new() succeeded: a runtime of this call's own.
NewRuntime(t) == [id |-> t, owner |-> t]

\* rt.block_on(...) is entered with the call's locals.
EnterBlockOn(t, locals) ==
  /\ pc' = [pc EXCEPT ![t] = "block_on"]
  /\ runtimes' = runtimes \cup {NewRuntime(t)}
  /\ frame' = [frame EXCEPT ![t] = [locals EXCEPT !.rt = NewRuntime(t).id]]
  /\ UNCHANGED <<env, ret, heap, memError, crashed>>

\* The async block produced its envelope; the runtime is still alive.
LeaveBlockOn(t, r, e) ==
  /\ pc' = [pc EXCEPT ![t] = "drop_rt"]
  /\ frame' = [frame EXCEPT ![t] = [rt |-> frame[t].rt, result |-> r.ptr]]
  /\ heap' = r.mem
  /\ env' = [env EXCEPT ![t] = e]
  /\ UNCHANGED <<call, ret, memError, runtimes, crashed>>

\* ------------------------------------------------------------ dns_resolve
dns_resolve(t, hostname, dns_servers, rtOk) ==
  /\ pc[t] = "idle" /\ ~crashed
  /\ call' = [call EXCEPT ![t] = [op |-> "dns_resolve", hostname |-> hostname,
                                  dns_servers |-> dns_servers]]
  /\ \E h \in CStrFromPtr(hostname) :
       IF h.segv THEN Segfault(t)
       ELSE IF ~Utf8Valid(h.bytes)
         THEN ReturnEarly(t, create_dns_error(heap, t, Message("Invalid hostname encoding")))
       ELSE \E s \in ServerIps(dns_servers) :
         IF s.segv THEN Segfault(t)
         ELSE IF ~rtOk
           THEN ReturnEarly(t, create_dns_error(heap, t, Message("Failed to create runtime")))
           ELSE EnterBlockOn(t, [rt |-> 0, hostname |-> h.bytes, ips |-> s.ips])

\* NameServerConfig for one parsed address
NameServer(ip) ==
  [socket_addr |-> [ip |-> ip, port |-> DnsPort], protocol |-> "Udp",
   trust_negative_responses |-> TRUE]

\* The resolver dns_resolve builds: the system's when no address was parsed.
ChooseResolver(ips) ==
  IF ips = <<>>
    THEN [kind |-> "system", servers |-> <<>>]
    ELSE [kind |-> "custom", servers |-> [i \in 1..Len(ips) |-> NameServer(ips[i])]]

dns_resolve_block_on(t, sysOk, out) ==
  /\ pc[t] = "block_on" /\ call[t].op = "dns_resolve" /\ ~crashed
  /\ LET resolver == ChooseResolver(frame[t].ips)
         ran == [env[t] EXCEPT !.ranOn = frame[t].rt]
     IN IF resolver.kind = "system" /\ ~sysOk
          THEN LeaveBlockOn(t, create_dns_error(heap, t,
                                 Text("Failed to create system resolver: {}", "conf", <<>>)),
                            ran)
          ELSE LeaveBlockOn(t, LookupEnvelope(heap, t, out),
                            [ran EXCEPT !.resolver = resolver,
                                        !.lookup = [done |-> TRUE, out |-> out]])

\* ----------------------------------------------------- dns_resolve_simple
dns_resolve_simple(t, hostname, rtOk) ==
  /\ pc[t] = "idle" /\ ~crashed
  /\ call' = [call EXCEPT ![t] = [op |-> "dns_resolve_simple", hostname |-> hostname]]
  /\ \E h \in CStrFromPtr(hostname) :
       IF h.segv THEN Segfault(t)
       ELSE IF ~Utf8Valid(h.bytes)
         THEN ReturnEarly(t, create_dns_error(heap, t, Message("Invalid hostname encoding")))
       ELSE IF ~rtOk
         THEN ReturnEarly(t, create_dns_error(heap, t, Message("Failed to create runtime")))
         ELSE EnterBlockOn(t, [rt |-> 0, hostname |-> h.bytes])

dns_resolve_simple_block_on(t, sysOk, out) ==
  /\ pc[t] = "block_on" /\ call[t].op = "dns_resolve_simple" /\ ~crashed
  /\ LET ran == [env[t] EXCEPT !.ranOn = frame[t].rt]
     IN IF ~sysOk
          THEN LeaveBlockOn(t, create_dns_error(heap, t,
                                 Text("Failed to create resolver: {}", "conf", <<>>)),
                            ran)
          ELSE LeaveBlockOn(t, LookupEnvelope(heap, t, out),
                            [ran EXCEPT !.resolver = [kind |-> "system", servers |-> <<>>],
                                        !.lookup = [done |-> TRUE, out |-> out]])

\* --------------------------------------------------- http_request_execute
http_request_execute(t, request, rtOk) ==
  /\ pc[t] = "idle" /\ ~crashed
  /\ call' = [call EXCEPT ![t] = [op |-> "http_request_execute", request |-> request]]
  /\ IF request.null
       THEN ReturnEarly(t, create_http_error(heap, t, Message("Null request"), 0))
     ELSE \E u \in CStrFromPtr(request.url) :
       IF u.segv THEN Segfault(t)
       ELSE IF ~Utf8Valid(u.bytes)
         THEN ReturnEarly(t, create_http_error(heap, t, Message("Invalid URL encoding"), 0))
       ELSE \E m \in CStrFromPtr(request.method) :
         IF m.segv THEN Segfault(t)
         ELSE IF ~Utf8Valid(m.bytes)
           THEN ReturnEarly(t, create_http_error(heap, t, Message("Invalid method encoding"), 0))
         ELSE IF ~rtOk
           THEN ReturnEarly(t, create_http_error(heap, t, Message("Failed to create runtime"), 0))
           ELSE EnterBlockOn(t, [rt |-> 0, url |-> u.bytes, method |-> m.bytes])

\* match req_builder.send().await, once the request is built
SendAndRead(t, req, out, ran) ==
  LET sent == [ran EXCEPT !.sent = [done |-> TRUE, req |-> req]] IN
  IF ~out.sendOk
    THEN LeaveBlockOn(t, create_http_error(heap, t,
                           Text("Request failed: {}", out.err, <<>>), 0),
                      sent)
  ELSE LET got == [sent EXCEPT !.response = [received |-> TRUE, status |-> out.status,
                                            textOk |-> out.textOk, text |-> out.text]]
       IN IF out.textOk
            THEN LeaveBlockOn(t, HttpSuccess(heap, t, out.status, out.text), got)
            ELSE LeaveBlockOn(t, create_http_error(heap, t,
                                   Text("Failed to read response: {}", out.err, <<>>),
                                   out.status),
                              got)

http_request_block_on(t, clientOk, out) ==
  /\ pc[t] = "block_on" /\ call[t].op = "http_request_execute" /\ ~crashed
  /\ LET request == call[t].request
         ran == [env[t] EXCEPT !.ranOn = frame[t].rt, !.client = clientOk]
     IN IF ~clientOk
          THEN LeaveBlockOn(t, create_http_error(heap, t,
                                 Text("Failed to create client: {}", "builder", <<>>), 0),
                            ran)
        ELSE IF frame[t].method \notin SupportedMethods
          THEN LeaveBlockOn(t, create_http_error(heap, t,
                                 Message("Unsupported HTTP method"), 0),
                            ran)
        ELSE \E hl \in HeaderLoop(<<>>, request.headers) :
          IF hl.segv
            THEN Segfault(t) /\ UNCHANGED call
            ELSE SendAndRead(t, [method |-> frame[t].method, url |-> frame[t].url,
                                 headers |-> hl.headers, body |-> RequestBody(request),
                                 timeout_ms |-> request.timeout_ms],
                             out, ran)

\* --------------------------------------------------------- end of a call
\* block_on returned: the function's locals are dropped, the runtime among
\* them, and the envelope pointer is returned.
drop_runtime_and_return(t) ==
  /\ pc[t] = "drop_rt" /\ ~crashed
  /\ runtimes' = {r \in runtimes : r.id # frame[t].rt}
  /\ ret' = [ret EXCEPT ![t] = frame[t].result]
  /\ frame' = [frame EXCEPT ![t] = NoFrame]
  /\ pc' = [pc EXCEPT ![t] = "returned"]
  /\ UNCHANGED <<call, env, heap, memError, crashed>>

\* dns_result_free that drops the array without its elements.
DnsResultCells_LeakAddresses(h, result) ==
  LET r == h[result] IN
  (IF r.error # NullPtr THEN <<r.error>> ELSE <<>>)
    \o (IF r.addresses # NullPtr THEN <<r.addresses>> ELSE <<>>)
    \o <<result>>

\* ------------------------------------------------------------------ frees
\* What dns_result_free releases, in order: the error string, each of the
\* first `count` elements of the array, the array, the DnsResult box.
DnsResultCells(h, result) ==
  LET r == h[result] IN
  (IF r.error # NullPtr THEN <<r.error>> ELSE <<>>)
    \o (IF r.addresses # NullPtr
          THEN [i \in 1..r.count |-> IF i <= Len(h[r.addresses].elems)
                                       THEN h[r.addresses].elems[i] ELSE NullPtr]
                 \o <<r.addresses>>
          ELSE <<>>)
    \o <<result>>

DnsResultFree(h, result) ==
  IF result = NullPtr
    THEN [mem |-> h, err |-> FALSE]
    ELSE ReleaseAll([mem |-> h, err |-> FALSE], DnsResultCells(h, result))

\* What http_response_free releases: the body, the error, the box.
HttpResponseCells(h, response) ==
  LET r == h[response] IN
  (IF r.body # NullPtr THEN <<r.body>> ELSE <<>>)
    \o (IF r.error # NullPtr THEN <<r.error>> ELSE <<>>)
    \o <<response>>

HttpResponseFree(h, response) ==
  IF response = NullPtr
    THEN [mem |-> h, err |-> FALSE]
    ELSE ReleaseAll([mem |-> h, err |-> FALSE], HttpResponseCells(h, response))

\* The caller hands back the envelope it received, once, or a null pointer.
CallerFrees(t, ops, ptr) ==
  \/ pc[t] = "returned" /\ call[t].op \in ops /\ ptr = ret[t]
  \/ pc[t] = "idle" /\ ptr = NullPtr

AfterFree(t, op, ptr, r) ==
  /\ heap' = r.mem
  /\ memError' = (memError \/ r.err)
  /\ call' = [call EXCEPT ![t] = [op |-> op, arg |-> ptr]]
  /\ pc' = [pc EXCEPT ![t] = "idle"]
  /\ ret' = [ret EXCEPT ![t] = NullPtr]
  /\ env' = [env EXCEPT ![t] = NoEnv]
  /\ UNCHANGED <<frame, runtimes, crashed>>

dns_result_free(t, result) ==
  /\ ~crashed
  /\ CallerFrees(t, {"dns_resolve", "dns_resolve_simple"}, result)
  /\ AfterFree(t, "dns_result_free", result, DnsResultFree(heap, result))

http_response_free(t, response) ==
  /\ ~crashed
  /\ CallerFrees(t, {"http_request_execute"}, response)
  /\ AfterFree(t, "http_response_free", response, HttpResponseFree(heap, response))

\* ----------------------------------------------------------------- inputs
SeqsUpTo(S, n) == UNION {[1..k -> S] : k \in 0..n}

\* "h", a hostname that is not UTF-8, a null pointer
Hostnames == {Str(<<104>>), Str(BadBytes), NullStr}

\* "1.1.1.1", "::1", "1.1.1", "1.1.1.256", bytes that are not UTF-8, null
ServerEntries ==
  {Str(<<49, 46, 49, 46, 49, 46, 49>>), Str(V6Loopback), Str(<<49, 46, 49, 46, 49>>),
   Str(<<49, 46, 49, 46, 49, 46, 50, 53, 54>>), Str(BadBytes), NullStr}

ServerLists == SeqsUpTo(ServerEntries, MaxServers)

\* 127.0.0.1, ::1, 10.0.0.255
LookupAddrs ==
  {[ok |-> TRUE, v |-> 4, octets |-> <<127, 0, 0, 1>>],
   [ok |-> TRUE, v |-> 6, octets |-> <<>>],
   [ok |-> TRUE, v |-> 4, octets |-> <<10, 0, 0, 255>>]}

\* What lookup_ip may answer: an error, or the records found.
LookupOutcomesOf(addrs) ==
  {[ok |-> FALSE, ips |-> <<>>, err |-> e] : e \in {"no record found", "timed out"}}
    \cup {[ok |-> TRUE, ips |-> s, err |-> ""] : s \in SeqsUpTo(addrs, MaxRecords)}

LookupOutcomes == LookupOutcomesOf(LookupAddrs)

\* "a:b", " a : b ", "ab", "a:b:c", a line with a colon that is not UTF-8, null
HeaderLines ==
  {Str(<<97, 58, 98>>), Str(<<32, 97, 32, 58, 9, 98, 32>>), Str(<<97, 98>>),
   Str(<<97, 58, 98, 58, 99>>), Str(<<255, 58, 98>>), NullStr}

\* the six methods, "get", "", bytes that are not UTF-8, null
Methods ==
  {Str(m) : m \in SupportedMethods} \cup {Str(<<103, 101, 116>>), Str(<<>>), Str(BadBytes), NullStr}

Urls == {Str(<<117>>), Str(BadBytes), NullStr}

\* no body (null), two bytes one of them NUL, a pointer with length 0
Bodies ==
  {[body |-> NullStr, body_len |-> 0], [body |-> Str(<<98, 0>>), body_len |-> 2],
   [body |-> Str(<<98>>), body_len |-> 0]}

NullRequest == [null |-> TRUE]

RequestsOf(urls, methods, headerLists, bodies) ==
  {[null |-> FALSE, url |-> u, method |-> m, headers |-> h, body |-> b.body,
    body_len |-> b.body_len, timeout_ms |-> 30000]
     : u \in urls, m \in methods, h \in headerLists, b \in bodies}

Requests ==
  {NullRequest} \cup RequestsOf(Urls, Methods, SeqsUpTo(HeaderLines, MaxHeaders), Bodies)

\* What the server and the network may do: the send fails, or a status
\* arrives and the body is read as text (with or without a NUL) or is not.
SendOutcomes ==
  {[sendOk |-> FALSE, status |-> 0, textOk |-> FALSE, text |-> <<>>, err |-> "timed out"]}
    \cup {[sendOk |-> TRUE, status |-> st, textOk |-> FALSE, text |-> <<>>, err |-> "decode"]
            : st \in {200, 404}}
    \cup {[sendOk |-> TRUE, status |-> st, textOk |-> TRUE, text |-> b, err |-> ""]
            : st \in {200, 404}, b \in {<<>>, <<110, 102>>, <<110, 0, 102>>}}

\* ---------------------------------------------------------- specifications
\* DNS calls of one thread, over every input.
NextDns ==
  \E t \in {1} :
    \/ pc[t] = "idle" /\ \E h \in Hostnames, s \in ServerLists, rtOk \in BOOLEAN : dns_resolve(t, h, s, rtOk)
    \/ pc[t] = "block_on" /\ \E sysOk \in BOOLEAN, out \in LookupOutcomes : dns_resolve_block_on(t, sysOk, out)
    \/ pc[t] = "idle" /\ \E h \in Hostnames, rtOk \in BOOLEAN : dns_resolve_simple(t, h, rtOk)
    \/ pc[t] = "block_on" /\ \E sysOk \in BOOLEAN, out \in LookupOutcomes : dns_resolve_simple_block_on(t, sysOk, out)
    \/ drop_runtime_and_return(t)
    \/ \E p \in {NullPtr, ret[t]} : dns_result_free(t, p)

SpecDns == Init /\ [][NextDns]_vars

\* HTTP calls of one thread, over every input.
NextHttp ==
  \E t \in {1} :
    \/ pc[t] = "idle" /\ \E r \in Requests, rtOk \in BOOLEAN : http_request_execute(t, r, rtOk)
    \/ pc[t] = "block_on" /\ \E clientOk \in BOOLEAN, out \in SendOutcomes : http_request_block_on(t, clientOk, out)
    \/ drop_runtime_and_return(t)
    \/ \E p \in {NullPtr, ret[t]} : http_response_free(t, p)

SpecHttp == Init /\ [][NextHttp]_vars

\* Every call of one thread, over every input.
NextAll == NextDns \/ NextHttp

SpecAll == Init /\ [][NextAll]_vars

\* Calls of every kind issued concurrently by several threads.
ConcHostnames == {Str(<<104>>)}
ConcServerLists == {<<>>, <<Str(<<49, 46, 49, 46, 49, 46, 49>>)>>}
ConcLookupOutcomes ==
  {o \in LookupOutcomesOf({[ok |-> TRUE, v |-> 4, octets |-> <<127, 0, 0, 1>>]}) :
     o.err # "no record found"}
ConcRequests ==
  {NullRequest}
    \cup RequestsOf({Str(<<117>>)}, {Str(GET)}, {<<Str(<<97, 58, 98>>)>>},
                    {[body |-> NullStr, body_len |-> 0]})
ConcSendOutcomes ==
  {o \in SendOutcomes : ~o.sendOk \/ (o.status = 200 /\ o.text = <<110, 102>>)}

Next ==
  \E t \in Threads :
    \/ pc[t] = "idle" /\ \E h \in ConcHostnames, s \in ConcServerLists, rtOk \in BOOLEAN :
         dns_resolve(t, h, s, rtOk)
    \/ pc[t] = "block_on" /\ \E sysOk \in BOOLEAN, out \in ConcLookupOutcomes : dns_resolve_block_on(t, sysOk, out)
    \/ pc[t] = "idle" /\ \E h \in ConcHostnames, rtOk \in BOOLEAN : dns_resolve_simple(t, h, rtOk)
    \/ pc[t] = "block_on" /\ \E sysOk \in BOOLEAN, out \in ConcLookupOutcomes :
         dns_resolve_simple_block_on(t, sysOk, out)
    \/ pc[t] = "idle" /\ \E r \in ConcRequests, rtOk \in BOOLEAN : http_request_execute(t, r, rtOk)
    \/ pc[t] = "block_on" /\ \E clientOk \in BOOLEAN, out \in ConcSendOutcomes :
         http_request_block_on(t, clientOk, out)
    \/ drop_runtime_and_return(t)
    \/ \E p \in {NullPtr, ret[t]} : dns_result_free(t, p)
    \/ \E p \in {NullPtr, ret[t]} : http_response_free(t, p)

Spec == Init /\ [][Next]_vars

\* ----------------------------------------------------------------- claims
DnsOps == {"dns_resolve", "dns_resolve_simple"}
FreeOps == {"dns_result_free", "http_response_free"}

\* The call of t has produced its envelope (returned, or about to be).
HasResult(t) == pc[t] \in {"drop_rt", "returned"}
Result(t) == IF pc[t] = "returned" THEN ret[t] ELSE frame[t].result
TextOf(p) == heap[p].text

\* C1: every envelope an operation produces is non-null and has exactly one
\* of its error text and its success payload (addresses for a DnsResult,
\* body for an HttpResponse) non-null.
C1_ErrorXorPayload ==
  /\ \A t \in Threads :
       HasResult(t) => /\ IsLive(heap, Result(t))
                       /\ heap[Result(t)].kind \in {"DnsResult", "HttpResponse"}
  /\ \A a \in Addr :
       /\ heap[a].kind = "DnsResult"
            => /\ (heap[a].error # NullPtr) # (heap[a].addresses # NullPtr)
               /\ heap[a].error # NullPtr => heap[heap[a].error].kind = "CString"
               /\ heap[a].addresses # NullPtr => heap[heap[a].addresses].kind = "PtrArray"
       /\ heap[a].kind = "HttpResponse"
            => /\ (heap[a].error # NullPtr) # (heap[a].body # NullPtr)
               /\ heap[a].error # NullPtr => heap[heap[a].error].kind = "CString"
               /\ heap[a].body # NullPtr => heap[heap[a].body].kind = "CString"

C1_Witness ==
  \E t \in Threads :
    /\ pc[t] = "returned" /\ call[t].op = "dns_resolve"
    /\ heap[ret[t]].addresses # NullPtr /\ heap[ret[t]].error = NullPtr

\* C2: no failure is fatal: whatever the arguments (null pointers among
\* them), the process does not die and a call that ends returns a live,
\* non-null envelope.
C2_NoFailureIsFatal ==
  /\ ~crashed
  /\ \A t \in Threads : pc[t] = "returned" => IsLive(heap, ret[t])

\* The method strings the interface names, as the claims list them.
NamedMethods ==
  {<<71, 69, 84>>, <<80, 79, 83, 84>>, <<80, 85, 84>>, <<68, 69, 76, 69, 84, 69>>,
   <<80, 65, 84, 67, 72>>, <<72, 69, 65, 68>>}

\* A finished http_request_execute on a non-null request whose method is a
\* string outside the named set.
UnsupportedCall(t) ==
  /\ HasResult(t) /\ call[t].op = "http_request_execute"
  /\ ~call[t].request.null
  /\ ~call[t].request.method.null
  /\ call[t].request.method.bytes \notin NamedMethods

UnsupportedMethodError(t) ==
  /\ heap[Result(t)].error # NullPtr
  /\ TextOf(heap[Result(t)].error) = Message("Unsupported HTTP method")

\* The envelope reports a runtime or a client that could not be built.
InfrastructureError(t) ==
  /\ heap[Result(t)].error # NullPtr
  /\ TextOf(heap[Result(t)].error).fmt
       \in {"Failed to create runtime", "Failed to create client: {}"}

\* C3 as stated: a method string outside the named set always yields the
\* unsupported-method error with status 0 and no body, whatever the other
\* request fields are, and nothing is sent (read here for non-null URL
\* pointers and leaving aside a runtime or client that could not be built).
C3_Original ==
  \A t \in Threads :
    (UnsupportedCall(t) /\ ~call[t].request.url.null /\ ~InfrastructureError(t))
      => /\ UnsupportedMethodError(t)
         /\ heap[Result(t)].status_code = 0
         /\ heap[Result(t)].body = NullPtr
         /\ ~env[t].sent.done

\* C3 amended: such a call always ends in an error envelope with status 0,
\* no body and nothing sent; the error is the unsupported-method error when
\* the URL and the method are well-formed text and the runtime and the client
\* were built.
C3_Amended ==
  \A t \in Threads :
    UnsupportedCall(t)
      => /\ heap[Result(t)].error # NullPtr
         /\ heap[Result(t)].status_code = 0
         /\ heap[Result(t)].body = NullPtr
         /\ ~env[t].sent.done
         /\ ( /\ ~call[t].request.url.null
              /\ Utf8Valid(call[t].request.url.bytes)
              /\ Utf8Valid(call[t].request.method.bytes)
              /\ env[t].ranOn # 0
              /\ env[t].client )
              => UnsupportedMethodError(t)

C3_Witness ==
  \E t \in Threads :
    /\ UnsupportedCall(t) /\ pc[t] = "returned"
    /\ call[t].request.method.bytes = <<103, 101, 116>>
    /\ Len(call[t].request.headers) > 0
    /\ UnsupportedMethodError(t)

\* C4: with a non-empty nameserver list the system resolver configuration is
\* never used: the resolver that does the lookup is the custom one.
C4_Original ==
  \A t \in Threads :
    ( /\ call[t].op = "dns_resolve"
      /\ Len(call[t].dns_servers) > 0
      /\ \A i \in 1..Len(call[t].dns_servers) : ~call[t].dns_servers[i].null
      /\ env[t].resolver.kind # "none" )
      => env[t].resolver.kind = "custom"

\* The allocations an envelope owns: itself, its strings, its array and the
\* array's strings.
Owned(h, p) ==
  {p} \cup ({h[p].error} \ {NullPtr})
      \cup (IF h[p].kind = "HttpResponse" THEN {h[p].body} \ {NullPtr} ELSE {})
      \cup (IF h[p].kind = "DnsResult" /\ h[p].addresses # NullPtr
              THEN {h[p].addresses}
                     \cup {h[h[p].addresses].elems[i] : i \in 1..Len(h[h[p].addresses].elems)}
              ELSE {})

\* Thread t calls a free function in this step.
FreeStep(t) ==
  /\ call'[t].op \in FreeOps
  /\ pc[t] = "returned" \/ call'[t] # call[t]

\* C5: the matching free function, given the envelope of a call, releases
\* every allocation of that call exactly once and nothing else, so that none
\* of the call's allocations stays live; given null it changes nothing.
C5_FreeReleasesExactlyOnce ==
  [][\A t \in Threads :
       FreeStep(t) =>
         IF call'[t].arg = NullPtr
           THEN heap' = heap /\ memError' = memError
           ELSE /\ ~memError'
                /\ \A a \in Owned(heap, call'[t].arg) : IsLive(heap, a)
                /\ Owned(heap, call'[t].arg) = {a \in Addr : IsLive(heap, a) /\ heap[a].by = t}
                /\ heap' = [a \in Addr |-> IF a \in Owned(heap, call'[t].arg)
                                             THEN Free ELSE heap[a]]
                /\ \A a \in Addr : IsLive(heap', a) => heap'[a].by # t]_vars

C5_Witness ==
  \E t, u \in Threads :
    /\ t # u
    /\ pc[t] = "idle" /\ call[t].op = "dns_result_free" /\ call[t].arg # NullPtr
    /\ pc[u] = "returned" /\ heap[ret[u]].kind = "DnsResult"
    /\ heap[ret[u]].addresses # NullPtr
    /\ \A a \in Addr : IsLive(heap, a) => heap[a].by # t

\* C6: in every DnsResult, count is the number of elements of the array and
\* every element is a string: a success has one address string per record of
\* the lookup, in lookup order, and at least one; a lookup without records
\* yields an error envelope (addresses null, count 0).
C6_CountMatchesAddresses ==
  \A t \in Threads :
    (HasResult(t) /\ call[t].op \in DnsOps) =>
      LET e == heap[Result(t)]
          lk == env[t].lookup
      IN /\ e.kind = "DnsResult"
         /\ IF e.addresses # NullPtr
              THEN /\ lk.done /\ lk.out.ok
                   /\ e.count >= 1
                   /\ e.count = Len(lk.out.ips)
                   /\ heap[e.addresses].kind = "PtrArray"
                   /\ Len(heap[e.addresses].elems) = e.count
                   /\ \A i \in 1..e.count :
                        LET p == heap[e.addresses].elems[i] IN
                        /\ p # NullPtr
                        /\ heap[p].kind = "CString"
                        /\ TextOf(p).bytes = IpToString(lk.out.ips[i])
                        /\ \A j \in 1..e.count : j # i => heap[e.addresses].elems[j] # p
              ELSE /\ e.count = 0
                   /\ e.error # NullPtr
                   /\ lk.done /\ lk.out.ok => lk.out.ips = <<>>
         /\ (lk.done /\ lk.out.ok /\ lk.out.ips = <<>>)
              => /\ e.addresses = NullPtr /\ e.count = 0
                 /\ TextOf(e.error) = Message("No addresses found")

\* A success of two records: "127.0.0.1" then "::1".
C6_Witness ==
  \E t \in Threads :
    /\ pc[t] = "returned" /\ call[t].op = "dns_resolve_simple"
    /\ heap[ret[t]].count = 2
    /\ TextOf(heap[heap[ret[t]].addresses].elems[1]).bytes
         = <<49, 50, 55, 46, 48, 46, 48, 46, 49>>
    /\ TextOf(heap[heap[ret[t]].addresses].elems[2]).bytes = <<58, 58, 49>>

\* C7: a decoded response body that holds a NUL yields an error envelope
\* (error set, body null); a success body is the whole decoded text, never a
\* part of it.
C7_NulBodyIsError ==
  \A t \in Threads :
    (HasResult(t) /\ call[t].op = "http_request_execute") =>
      LET e == heap[Result(t)]
          rs == env[t].response
      IN /\ (rs.received /\ rs.textOk /\ HasNul(rs.text))
              => e.error # NullPtr /\ e.body = NullPtr
         /\ e.body # NullPtr
              => /\ rs.received /\ rs.textOk
                 /\ TextOf(e.body).bytes = rs.text

C7_Witness ==
  \E t \in Threads :
    /\ pc[t] = "returned" /\ call[t].op = "http_request_execute"
    /\ env[t].response.received /\ env[t].response.textOk
    /\ env[t].response.text = <<110, 0, 102>>
    /\ TextOf(heap[ret[t]].error) = Message("Response contains null bytes")

InFlight(t) == pc[t] \in {"block_on", "drop_rt"}

\* C8: every call in flight has a runtime of its own, no runtime serves two
\* calls, a call runs its operation on its own runtime, and a runtime lives
\* only while its call is in flight: none remains when no call is.
C8_RuntimePerCall ==
  /\ \A t \in Threads :
       InFlight(t) => /\ \E r \in runtimes : r.owner = t /\ r.id = frame[t].rt
                      /\ pc[t] = "drop_rt" => env[t].ranOn = frame[t].rt
  /\ \A t, u \in Threads :
       (t # u /\ InFlight(t) /\ InFlight(u)) => frame[t].rt # frame[u].rt
  /\ \A r \in runtimes : InFlight(r.owner) /\ frame[r.owner].rt = r.id
  /\ \A r1, r2 \in runtimes : r1.id = r2.id => r1 = r2
  /\ (\A t \in Threads : ~InFlight(t)) => runtimes = {}

C8_Witness ==
  \E t, u \in Threads :
    /\ t # u
    /\ pc[t] = "drop_rt" /\ call[t].op = "http_request_execute"
    /\ pc[u] = "block_on" /\ call[u].op = "dns_resolve"
    /\ Cardinality(runtimes) = 2

ContainsColon(b) == \E i \in 1..Len(b) : b[i] = 58
WellFormedWithColon(b) == Utf8Valid(b) /\ ContainsColon(b)

\* The name and value of a line: around its first colon, trimmed.
NameValue(b) ==
  LET i == CHOOSE k \in 1..Len(b) : b[k] = 58 /\ \A j \in 1..(k - 1) : b[j] # 58
  IN <<Trim(SubSeq(b, 1, i - 1)), Trim(SubSeq(b, i + 1, Len(b)))>>

NamesValues(ls) == [i \in 1..Len(ls) |-> NameValue(ls[i])]
LineBytes(hs) == [i \in 1..Len(hs) |-> hs[i].bytes]

\* An http_request_execute whose header pointers are all non-null.
HeaderCall(t) ==
  /\ call[t].op = "http_request_execute"
  /\ ~call[t].request.null
  /\ \A i \in 1..Len(call[t].request.headers) : ~call[t].request.headers[i].null

\* The call got as far as the header loop: runtime and client built and the
\* method one of the named ones.
ReachedHeaders(t) ==
  /\ HasResult(t) /\ env[t].ranOn # 0 /\ env[t].client
  /\ ~call[t].request.method.null
  /\ call[t].request.method.bytes \in NamedMethods

\* C9 as stated: the request carries exactly the lines that contain a colon,
\* in order, split at the first colon and trimmed; a line without a colon
\* does not make the call fail before the send.
C9_Original ==
  \A t \in Threads :
    HeaderCall(t) =>
      /\ env[t].sent.done
           => env[t].sent.req.headers
                = NamesValues(SelectSeq(LineBytes(call[t].request.headers), ContainsColon))
      /\ ReachedHeaders(t) => env[t].sent.done

\* C9 amended: the request carries exactly the lines that are well-formed
\* UTF-8 and contain a colon, in order, split at the first colon and trimmed;
\* a line without a colon or not UTF-8 is dropped and the call goes on.
C9_Amended ==
  \A t \in Threads :
    HeaderCall(t) =>
      /\ env[t].sent.done
           => env[t].sent.req.headers
                = NamesValues(SelectSeq(LineBytes(call[t].request.headers),
                                        WellFormedWithColon))
      /\ ReachedHeaders(t) => env[t].sent.done

\* "ab" is dropped, " a : b " is sent as ("a", "b"), and the call succeeds.
C9_Witness ==
  \E t \in Threads :
    /\ pc[t] = "returned" /\ HeaderCall(t) /\ env[t].sent.done
    /\ LineBytes(call[t].request.headers) = <<<<97, 98>>, <<32, 97, 32, 58, 9, 98, 32>>>>
    /\ env[t].sent.req.headers = << <<(<<97>>), (<<98>>)>> >>
    /\ heap[ret[t]].error = NullPtr

\* C10: status_code is 0 in every envelope of a call that received no
\* response status, and the received status in every envelope of a call that
\* did, the error envelopes among them.
C10_StatusCode ==
  \A t \in Threads :
    (HasResult(t) /\ call[t].op = "http_request_execute") =>
      heap[Result(t)].status_code
        = IF env[t].response.received THEN env[t].response.status ELSE 0

C10_Witness ==
  \E t \in Threads :
    /\ pc[t] = "returned" /\ call[t].op = "http_request_execute"
    /\ env[t].response.received /\ ~env[t].response.textOk
    /\ heap[ret[t]].error # NullPtr
    /\ heap[ret[t]].status_code = 404
====
